---- MODULE Spec2Model ----
(***************************************************************************)
(* A model of the open-sat-ai analysis pipeline: the in-memory cache       *)
(* store, the cache key, the guardrail engine and the time-bucketed        *)
(* workflow executors.  Every component has a specification of its own     *)
(* (SpecCache, SpecExec, SpecKey, SpecGuard) over the shared variables.    *)
(***************************************************************************)
EXTENDS Integers, Sequences, FiniteSets, TLC

VARIABLES
    isInitialized, \* the client module's flag of that name
    initializationPromise, \* the client module's variable of that name: 0 for null, else the index of the promise in eePromises
    eePromises, \* every promise initializeEarthEngine created, each pending, resolved or rejected
    eeCredentials, \* whether both GEE_ environment variables are set
    eeRequests, \* per call of initializeEarthEngine: the promise it returned and what the caller's await got
    geocodingCache, \* the geocoding module's Map from normalized name to what was stored for it
    geoName,    \* the locationName of the geocodeLocation call under way or last finished
    geoAnswer,  \* what the Nominatim request of that call came back with
    geoResult,  \* what that call returned or threw
    geoPc,      \* where geocodeLocation is
    geoCalls,   \* how many calls there were
    stSeries,   \* the values of the time series the statistics are computed from
    stStats,    \* the stats object of the run route, once computed
    stPlan,     \* the validated plan of that request
    stWorkflow, \* the attribution of the workflow result the route got
    stResult,   \* the attributions of the result the route builds
    cdPlan,     \* the plan handed to a change-detection executor
    cdTz,       \* the time zone of the process running it
    cdWindows,  \* the before and after windows it filters to, in half days
    cdScalar,   \* the changePercent it returns
    cdPc,       \* where the change-detection executor is
    rwPlan,     \* the plan handed to resolveWorkflow
    rwResult,   \* the executor resolveWorkflow returned, or the error it threw
    cache,      \* InMemoryCache.cache: the Map's entries in insertion order
    now,        \* Date.now(), in clock ticks
    ev,         \* the last cache operation and what it returned
    calls,      \* how many cache operations and clock ticks there were
    exPlan,     \* the plan handed to the executor: product, dataset, timeRange
    exTz,       \* the time zone of the process running the executor
    exI,        \* how many buckets the executor's loop has attempted
    outcomes,   \* what the remote reduction answered for each attempted bucket
    series,     \* the executor's time series so far
    mapTile,    \* what getMapId answered for the full-range composite, and the composite asked for
    exPc,       \* where the executor is: start, loop, map, returned or an error
    keyPlanA,   \* the two plans handed to generateCacheKey
    keyPlanB,
    keyA,       \* their keys
    keyB,
    gPlan,      \* the plan handed to the guardrails
    gToday,     \* new Date() of validateTimeRange, as a day number
    gChecks,    \* the validations array of validateAnalysisPlan, as far as evaluated
    gResult,    \* what validateAnalysisPlan returned, or that it threw
    runPc       \* where the run route is for that plan

cacheVars == <<cache, now, ev, calls>>
execVars  == <<exPlan, exTz, exI, outcomes, series, mapTile, exPc>>
keyVars   == <<keyPlanA, keyPlanB, keyA, keyB>>
guardVars == <<gPlan, gToday, gChecks, gResult, runPc>>
resolveVars == <<rwPlan, rwResult>>
changeVars == <<cdPlan, cdTz, cdWindows, cdScalar, cdPc>>
statVars == <<stSeries, stStats, stPlan, stWorkflow, stResult>>
geoVars == <<geocodingCache, geoName, geoAnswer, geoResult, geoPc, geoCalls>>
eeVars == <<isInitialized, initializationPromise, eePromises, eeCredentials, eeRequests>>
vars == <<cacheVars, execVars, keyVars, guardVars, resolveVars, changeVars, statVars, geoVars, eeVars>>

Idle == "idle"

ResolveOff ==
    /\ rwPlan = Idle
    /\ rwResult = <<>>

ChangeOff ==
    /\ cdPlan = Idle
    /\ cdTz = 0
    /\ cdWindows = <<>>
    /\ cdScalar = <<>>
    /\ cdPc = Idle

StatOff ==
    /\ stSeries = <<>>
    /\ stStats = <<>>
    /\ stPlan = Idle
    /\ stWorkflow = <<>>
    /\ stResult = <<>>

GeoOff ==
    /\ geocodingCache = <<>>
    /\ geoName = <<>>
    /\ geoAnswer = <<>>
    /\ geoResult = <<>>
    /\ geoPc = Idle
    /\ geoCalls = 0

EarthEngineOff ==
    /\ isInitialized = FALSE
    /\ initializationPromise = 0
    /\ eePromises = <<>>
    /\ eeCredentials = FALSE
    /\ eeRequests = <<>>

(***************************************************************************)
(* Calendar arithmetic of the JavaScript Date object (proleptic Gregorian, *)
(* UTC).  A date is a record [y, m, d]; a day number counts days from      *)
(* 1970-01-01, i.e. Date.getTime() / 86400000 for a date-only string.      *)
(***************************************************************************)
IsLeap(y) == (y % 4 = 0 /\ y % 100 # 0) \/ y % 400 = 0

DaysInMonth(y, m) ==
    IF m = 2 THEN (IF IsLeap(y) THEN 29 ELSE 28)
    ELSE IF m \in {4, 6, 9, 11} THEN 30 ELSE 31

Date(y, m, d) == [y |-> y, m |-> m, d |-> d]

DayNumber(dt) ==
    LET yy  == IF dt.m <= 2 THEN dt.y - 1 ELSE dt.y
        era == yy \div 400
        yoe == yy - era * 400
        mp  == IF dt.m > 2 THEN dt.m - 3 ELSE dt.m + 9
        doy == (153 * mp + 2) \div 5 + dt.d - 1
        doe == yoe * 365 + yoe \div 4 - yoe \div 100 + doy
    IN era * 146097 + doe - 719468

DateOfDay(n) ==
    LET z   == n + 719468
        era == z \div 146097
        doe == z - era * 146097
        yoe == (doe - doe \div 1460 + doe \div 36524 - doe \div 146096) \div 365
        doy == doe - (365 * yoe + yoe \div 4 - yoe \div 100)
        mp  == (5 * doy + 2) \div 153
        d   == doy - (153 * mp + 2) \div 5 + 1
        m   == IF mp < 10 THEN mp + 3 ELSE mp - 9
        y   == yoe + era * 400 + (IF m <= 2 THEN 1 ELSE 0)
    IN Date(y, m, d)

(***************************************************************************)
(* The cache store: class InMemoryCache.  The Map is a sequence of entries *)
(* in insertion order (the order Map.entries() iterates in).  The clock    *)
(* is counted in ticks; maxSize (100 in the source) and defaultTTL (one    *)
(* hour of milliseconds in the source) are scaled down to ticks and a      *)
(* handful of entries, the comparisons on them are those of the source.    *)
(***************************************************************************)
NKeys    == 3      \* how many distinct cache keys the callers use
NVals    == 2      \* how many distinct values they store
MaxCalls == 5      \* how many calls and clock ticks a run has

maxSize    == 2
defaultTTL == 1

CacheKeys   == 1..NKeys
CacheValues == 1..NVals
NoKey       == 0     \* null, as evictOldest's oldestKey starts
Miss        == [hit |-> FALSE, value |-> 0]
Hit(v)      == [hit |-> TRUE, value |-> v]

KeysOf(c) == {c[i].key : i \in 1..Len(c)}

IndexOfKey(c, k) ==
    IF k \in KeysOf(c) THEN CHOOSE i \in 1..Len(c) : c[i].key = k ELSE 0

\* Map.delete(key)
MapDelete(c, k) == SelectSeq(c, LAMBDA e : e.key # k)

\* Map.set(key, entry): an existing key keeps its place in the iteration order
MapSet(c, e) ==
    IF e.key \in KeysOf(c) THEN [c EXCEPT ![IndexOfKey(c, e.key)] = e]
    ELSE Append(c, e)

\* a faulty variant (told apart by C6): an entry counted as expired already at age = TTL
IsExpiredAtTTL(e, t) == t - e.timestamp >= defaultTTL

\* age > this.defaultTTL
IsExpired(e, t) == t - e.timestamp > defaultTTL

\* InMemoryCache.get: the Map afterwards and the value returned
CacheGetResult(c, k, t) ==
    IF k \notin KeysOf(c) THEN [cache |-> c, ret |-> Miss]
    ELSE LET i == IndexOfKey(c, k) IN
         IF IsExpired(c[i], t) THEN [cache |-> MapDelete(c, k), ret |-> Miss]
         ELSE [cache |-> [c EXCEPT ![i].hits = @ + 1], ret |-> Hit(c[i].value)]

\* InMemoryCache.has
CacheHasResult(c, k, t) ==
    IF k \notin KeysOf(c) THEN [cache |-> c, ret |-> FALSE]
    ELSE IF IsExpired(c[IndexOfKey(c, k)], t)
         THEN [cache |-> MapDelete(c, k), ret |-> FALSE]
         ELSE [cache |-> c, ret |-> TRUE]

\* the loop of evictOldest: the key it ends with
RECURSIVE OldestScan(_, _, _, _)
OldestScan(c, i, oldestKey, oldestTime) ==
    IF i > Len(c) THEN oldestKey
    ELSE IF c[i].timestamp < oldestTime
         THEN OldestScan(c, i + 1, c[i].key, c[i].timestamp)
         ELSE OldestScan(c, i + 1, oldestKey, oldestTime)

\* InMemoryCache.evictOldest
EvictOldest(c, t) ==
    LET oldestKey == OldestScan(c, 1, NoKey, t)
    IN IF oldestKey # NoKey THEN MapDelete(c, oldestKey) ELSE c

\* InMemoryCache.set
CacheSetResult(c, k, v, t) ==
    LET c1 == IF Len(c) >= maxSize THEN EvictOldest(c, t) ELSE c
    IN MapSet(c1, [key |-> k, value |-> v, timestamp |-> t, hits |-> 0])

CacheInit ==
    /\ cache = <<>>
    /\ now = 0
    /\ calls = 0
    /\ ev = [op |-> "new", key |-> NoKey, ret |-> Miss]

CacheOff ==
    /\ cache = <<>>
    /\ now = 0
    /\ calls = 0
    /\ ev = [op |-> Idle, key |-> NoKey, ret |-> Miss]

\* the clock advances between two calls
Tick ==
    /\ calls < MaxCalls
    /\ calls' = calls + 1
    /\ now' = now + 1
    /\ ev' = [op |-> "tick", key |-> NoKey, ret |-> Miss]
    /\ UNCHANGED cache
    /\ UNCHANGED <<execVars, keyVars, guardVars, resolveVars, changeVars, statVars, geoVars, eeVars>>

CacheGet(k) ==
    LET r == CacheGetResult(cache, k, now) IN
    /\ calls < MaxCalls
    /\ calls' = calls + 1
    /\ cache' = r.cache
    /\ ev' = [op |-> "get", key |-> k, ret |-> r.ret]
    /\ UNCHANGED now
    /\ UNCHANGED <<execVars, keyVars, guardVars, resolveVars, changeVars, statVars, geoVars, eeVars>>

CacheSet(k, v) ==
    /\ calls < MaxCalls
    /\ calls' = calls + 1
    /\ cache' = CacheSetResult(cache, k, v, now)
    /\ ev' = [op |-> "set", key |-> k, ret |-> Hit(v)]
    /\ UNCHANGED now
    /\ UNCHANGED <<execVars, keyVars, guardVars, resolveVars, changeVars, statVars, geoVars, eeVars>>

CacheHas(k) ==
    LET r == CacheHasResult(cache, k, now) IN
    /\ calls < MaxCalls
    /\ calls' = calls + 1
    /\ cache' = r.cache
    /\ ev' = [op |-> "has", key |-> k, ret |-> [hit |-> r.ret, value |-> 0]]
    /\ UNCHANGED now
    /\ UNCHANGED <<execVars, keyVars, guardVars, resolveVars, changeVars, statVars, geoVars, eeVars>>

CacheDelete(k) ==
    /\ calls < MaxCalls
    /\ calls' = calls + 1
    /\ cache' = MapDelete(cache, k)
    /\ ev' = [op |-> "delete", key |-> k,
              ret |-> [hit |-> k \in KeysOf(cache), value |-> 0]]
    /\ UNCHANGED now
    /\ UNCHANGED <<execVars, keyVars, guardVars, resolveVars, changeVars, statVars, geoVars, eeVars>>

CacheClear ==
    /\ calls < MaxCalls
    /\ calls' = calls + 1
    /\ cache' = <<>>
    /\ ev' = [op |-> "clear", key |-> NoKey, ret |-> Miss]
    /\ UNCHANGED now
    /\ UNCHANGED <<execVars, keyVars, guardVars, resolveVars, changeVars, statVars, geoVars, eeVars>>

NextCache ==
    \/ Tick
    \/ \E k \in CacheKeys : CacheGet(k)
    \/ \E k \in CacheKeys, v \in CacheValues : CacheSet(k, v)
    \/ \E k \in CacheKeys : CacheHas(k)
    \/ \E k \in CacheKeys : CacheDelete(k)
    \/ CacheClear

(***************************************************************************)
(* Claims about the cache store, checked under SpecCache.                  *)
(***************************************************************************)

\* C4: whatever get/set/has/delete/clear calls are made, with a clock that
\* never goes back and with several calls in one clock tick, the store never
\* holds more than maxSize entries.
C4_SizeNeverExceedsMax == Len(cache) <= maxSize

\* C5: a set of a new key into a store that holds maxSize entries removes
\* exactly one entry, one with the oldest creation timestamp, and leaves every
\* other entry as it was; the store then holds maxSize entries again.
C5_SetEvictsTheOldest ==
    [][ (ev'.op = "set" /\ ev'.key \notin KeysOf(cache) /\ Len(cache) = maxSize)
        => \E i \in 1..Len(cache) :
              /\ \A j \in 1..Len(cache) : cache[i].timestamp <= cache[j].timestamp
              /\ Len(cache') = maxSize
              /\ SubSeq(cache', 1, maxSize - 1)
                    = SelectSeq(cache, LAMBDA e : e.key # cache[i].key)
              /\ cache'[maxSize].key = ev'.key ]_vars

\* C6: get on an absent key is a miss and changes nothing; get on an entry
\* older than the TTL removes that entry and is a miss; get on an entry not
\* older than the TTL adds one to that entry's hit counter, returns its value
\* and changes nothing else.
C6_GetContract ==
    [][ ev'.op = "get" =>
        LET k == ev'.key IN
        /\ now' = now
        /\ IF \A i \in 1..Len(cache) : cache[i].key # k
           THEN cache' = cache /\ ev'.ret = Miss
           ELSE LET i == CHOOSE j \in 1..Len(cache) : cache[j].key = k IN
                IF now - cache[i].timestamp > defaultTTL
                THEN /\ ev'.ret = Miss
                     /\ cache' = SelectSeq(cache, LAMBDA e : e.key # k)
                ELSE /\ ev'.ret = [hit |-> TRUE, value |-> cache[i].value]
                     /\ cache' = [cache EXCEPT ![i].hits = cache[i].hits + 1] ]_vars

\* C27: a set on a key the store already holds only replaces that key's
\* entry (new value, creation time now, hit counter 0); every other key's
\* entry is still stored and unmodified, also when the store holds maxSize
\* entries.
C27_SetOnStoredKeyOnlyReplaces ==
    [][ (ev'.op = "set" /\ ev'.key \in KeysOf(cache))
        => /\ \E i \in 1..Len(cache') :
                 cache'[i] = [key |-> ev'.key, value |-> ev'.ret.value,
                              timestamp |-> now, hits |-> 0]
           /\ \A j \in 1..Len(cache) :
                 cache[j].key # ev'.key
                    => \E i \in 1..Len(cache') : cache'[i] = cache[j] ]_vars

\* C6 witness: a get has just hit an entry whose age is exactly the TTL, and
\* another entry is stored beside it.
C6_Witness ==
    /\ ev.op = "get"
    /\ ev.ret.hit
    /\ Len(cache) = 2
    /\ \E i \in 1..Len(cache) :
          /\ cache[i].key = ev.key
          /\ cache[i].hits = 1
          /\ now - cache[i].timestamp = defaultTTL

ExecOff ==
    /\ exPlan = Idle
    /\ exTz = Idle
    /\ exI = 0
    /\ outcomes = <<>>
    /\ series = <<>>
    /\ mapTile = [answer |-> "none", composite |-> {}]
    /\ exPc = Idle

KeyOff ==
    /\ keyPlanA = Idle
    /\ keyPlanB = Idle
    /\ keyA = <<>>
    /\ keyB = <<>>

GuardOff ==
    /\ gPlan = Idle
    /\ gToday = 0
    /\ gChecks = <<>>
    /\ gResult = [called |-> FALSE]
    /\ runPc = Idle

(***************************************************************************)
(* The time-series executors: executeNDVITimeSeries,                       *)
(* executeTemperatureTimeSeries, executePrecipitationTimeSeries,           *)
(* executeWaterTimeSeries and executeAirQualityTimeSeries.  All five cut   *)
(* plan.timeRange into buckets, ask the remote service for one reduction   *)
(* per bucket inside a try block, and then ask for the map tiles.          *)
(* Numbers are fixed-point with two decimals (273.15 is 27315).            *)
(***************************************************************************)
MaxSpanMonths == 1      \* how many months after its start month a range may end

NoBand == "none"

S5P_NO2 == <<"C","O","P","E","R","N","I","C","U","S","/","S","5","P","/",
             "O","F","F","L","/","L","3","_","N","O","2">>
S5P_CH4 == <<"C","O","P","E","R","N","I","C","U","S","/","S","5","P","/",
             "O","F","F","L","/","L","3","_","C","H","4">>
WorldCover == <<"E","S","A","/","W","o","r","l","d","C","o","v","e","r","/","v","2","0","0">>

\* String.prototype.includes
Includes(s, sub) ==
    \E i \in 1..(Len(s) - Len(sub) + 1) : SubSeq(s, i, i + Len(sub) - 1) = sub

\* bandMap[datasetId]; a missing key reads as undefined
bandMap(datasetId) ==
    IF datasetId = S5P_NO2 THEN "tropospheric_NO2_column_number_density"
    ELSE IF datasetId = S5P_CH4 THEN "CH4_column_volume_mixing_ratio_dry_air"
    ELSE NoBand

\* plan.parameters?.band ?? bandMap[datasetId]
BandName(plan) == IF plan.band # NoBand THEN plan.band ELSE bandMap(plan.datasetId)

\* the chain of datasetId.includes(...) tests that names the parameter
ParameterOf(datasetId) ==
    IF Includes(datasetId, <<"N","O","2">>) THEN "NO2"
    ELSE IF Includes(datasetId, <<"C","O">>) THEN "CO"
    ELSE IF Includes(datasetId, <<"O","3">>) THEN "O3"
    ELSE IF Includes(datasetId, <<"S","O","2">>) THEN "SO2"
    ELSE IF Includes(datasetId, <<"C","H","4">>) THEN "CH4"
    ELSE IF Includes(datasetId, <<"H","C","H","O">>) THEN "HCHO"
    ELSE "NO2"

ExecTargets ==
    { [dataProduct |-> "ndvi", datasetId |-> <<>>, band |-> NoBand],
      [dataProduct |-> "temperature", datasetId |-> <<>>, band |-> NoBand],
      [dataProduct |-> "precipitation", datasetId |-> <<>>, band |-> NoBand],
      [dataProduct |-> "water", datasetId |-> <<>>, band |-> NoBand],
      [dataProduct |-> "air_quality", datasetId |-> S5P_NO2, band |-> NoBand],
      [dataProduct |-> "air_quality", datasetId |-> S5P_CH4, band |-> NoBand],
      [dataProduct |-> "air_quality", datasetId |-> WorldCover, band |-> NoBand],
      [dataProduct |-> "air_quality", datasetId |-> WorldCover, band |-> "custom_band"] }

MonthIndex(dt) == dt.y * 12 + dt.m - 1

MonthOfIndex(i) == [y |-> i \div 12, m |-> (i % 12) + 1]

ExecStarts == {Date(2023, 11, 15), Date(2024, 1, 1)}

ExecRanges ==
    { [start |-> s,
       end |-> Date(MonthOfIndex(MonthIndex(s) + k).y,
                    MonthOfIndex(MonthIndex(s) + k).m, d)] :
         s \in ExecStarts, k \in (-1)..MaxSpanMonths, d \in {1, 28} }

ExecPlans ==
    { [dataProduct |-> t.dataProduct, datasetId |-> t.datasetId,
       band |-> t.band, timeRange |-> r] : t \in ExecTargets, r \in ExecRanges }

\* UTC offsets, in hours, of the zones the process may run in
TimeZones == {0, -5}

\* getFullYear/getMonth/getDate of new Date("YYYY-MM-DD"): the string is
\* UTC midnight, and west of Greenwich that instant is still the day before
LocalDate(dt, tz) == IF tz < 0 THEN DateOfDay(DayNumber(dt) - 1) ELSE dt

getMonthsBetweenDates(startDate, endDate, tz) ==
    LET current  == MonthIndex(LocalDate(startDate, tz))
        endMonth == MonthIndex(LocalDate(endDate, tz))
    IN IF current <= endMonth
       THEN [i \in 1..(endMonth - current + 1) |-> MonthOfIndex(current + i - 1)]
       ELSE <<>>

getYearsBetweenDates(startDate, endDate, tz) ==
    LET startYear == LocalDate(startDate, tz).y
        endYear   == LocalDate(endDate, tz).y
    IN IF startYear <= endYear
       THEN [i \in 1..(endYear - startYear + 1) |-> startYear + i - 1]
       ELSE <<>>

\* the buckets of a plan, each with the label and the date its point would get
Buckets(plan, tz) ==
    IF plan.dataProduct = "water"
    THEN LET years == getYearsBetweenDates(plan.timeRange.start, plan.timeRange.end, tz)
         IN [i \in 1..Len(years) |->
                [label |-> <<years[i]>>, date |-> Date(years[i], 7, 1)]]
    ELSE LET months == getMonthsBetweenDates(plan.timeRange.start, plan.timeRange.end, tz)
         IN [i \in 1..Len(months) |->
                [label |-> <<months[i].y, months[i].m>>,
                 date |-> Date(months[i].y, months[i].m, 15)]]

\* what the remote reduction of one bucket can answer
RemoteAnswers ==
    { [tag |-> "error", v |-> 0], [tag |-> "null", v |-> 0],
      [tag |-> "undefined", v |-> 0], [tag |-> "nan", v |-> 0],
      [tag |-> "num", v |-> 0], [tag |-> "num", v |-> 1500] }

\* a faulty variant (told apart by C3): a truthiness test, which also drops the number 0
IsTruthyValue(o) == o.tag = "num" /\ o.v # 0

\* value !== null && value !== undefined && !isNaN(value)
IsValidValue(o) == o.tag \notin {"null", "undefined", "nan"}

\* the unit conversion of each executor
DisplayValue(plan, v) ==
    IF plan.dataProduct = "temperature" THEN v - 27315
    ELSE IF plan.dataProduct = "water" THEN v * 100
    ELSE IF plan.dataProduct = "air_quality"
         THEN (IF ParameterOf(plan.datasetId) = "CH4" THEN v ELSE v * 1000000)
    ELSE v

\* a faulty variant (told apart by C1): a loop that stops at the first failed bucket
NextIndexBreak(i, n, o) == IF o.tag = "error" THEN n ELSE i + 1

\* the for-of loop: the catch block falls through to the next bucket
NextIndex(i, n, o) == i + 1

\* the body of the loop for one bucket b and the answer o
SeriesAfter(plan, s, b, o) ==
    IF o.tag # "error" /\ IsValidValue(o)
    THEN Append(s, [date |-> b.date, value |-> DisplayValue(plan, o.v),
                    label |-> b.label])
    ELSE s

\* a faulty variant (told apart by C2): a terminal test that also fails a one-point series
SeriesTooShort(s) == Len(s) <= 1

\* series.length === 0
NoValidData(s) == Len(s) = 0

AfterLoop(s) == IF NoValidData(s) THEN "nodata" ELSE "map"

NoTile == [answer |-> "none", composite |-> {}]

\* the image handed to getMapId: the reduction of the collection filtered
\* to the plan's whole range, written as the days it is taken over; the
\* water executor maps the static occurrence layer, which has no range
MapComposite(plan) ==
    IF plan.dataProduct = "water" THEN {}
    ELSE DayNumber(plan.timeRange.start)..(DayNumber(plan.timeRange.end) - 1)

\* a faulty variant (told apart by C17): a failed map request is swallowed
\* and the series is returned without a tile
AfterMapFallback(ok) == "returned"

\* the Promise around getMapId resolves with the tile URL or rejects, and
\* the rejection leaves the executor
AfterMap(ok) == IF ok THEN "returned" ELSE "maperror"

ExecInit ==
    /\ exPlan \in ExecPlans
    /\ exTz \in TimeZones
    /\ exI = 0
    /\ outcomes = <<>>
    /\ series = <<>>
    /\ mapTile = NoTile
    /\ exPc = "start"

\* from the call to the first remote request
ExecBegin ==
    /\ exPc = "start"
    /\ exPc' = IF exPlan.dataProduct = "air_quality" /\ BandName(exPlan) = NoBand
               THEN "unsupported"
               ELSE IF Len(Buckets(exPlan, exTz)) = 0 THEN AfterLoop(series)
               ELSE "loop"
    /\ UNCHANGED <<exPlan, exTz, exI, outcomes, series, mapTile>>
    /\ UNCHANGED <<cacheVars, keyVars, guardVars, resolveVars, changeVars, statVars, geoVars, eeVars>>

\* the remote service answers the request of the current bucket
ProcessBucket(o) ==
    /\ exPc = "loop"
    /\ exI < Len(Buckets(exPlan, exTz))
    /\ LET b == Buckets(exPlan, exTz)
           n == Len(b)
           s == SeriesAfter(exPlan, series, b[exI + 1], o)
           i == NextIndex(exI, n, o)
       IN /\ outcomes' = Append(outcomes, o)
          /\ series' = s
          /\ exI' = i
          /\ exPc' = IF i < n THEN "loop" ELSE AfterLoop(s)
    /\ UNCHANGED <<exPlan, exTz, mapTile>>
    /\ UNCHANGED <<cacheVars, keyVars, guardVars, resolveVars, changeVars, statVars, geoVars, eeVars>>

\* getMapId answers
MapTile(ok) ==
    /\ exPc = "map"
    /\ mapTile' = [answer |-> IF ok THEN "urlFormat" ELSE "error",
                   composite |-> MapComposite(exPlan)]
    /\ exPc' = AfterMap(ok)
    /\ UNCHANGED <<exPlan, exTz, exI, outcomes, series>>
    /\ UNCHANGED <<cacheVars, keyVars, guardVars, resolveVars, changeVars, statVars, geoVars, eeVars>>

NextExec ==
    \/ ExecBegin
    \/ \E o \in RemoteAnswers : ProcessBucket(o)
    \/ \E ok \in BOOLEAN : MapTile(ok)

ExecDone == exPc \in {"map", "returned", "maperror", "nodata"}

TagsOf(os) == [i \in 1..Len(os) |-> os[i].tag]

\* C1: the buckets are attempted in chronological order and all of them are
\* attempted; when every bucket either failed or returned a number and at
\* least one returned a number, the executor does not fail with a bucket's
\* error and its series has exactly one point per successful bucket, in
\* bucket order.
C1_FaultIsolation ==
    ExecDone =>
        LET b == Buckets(exPlan, exTz)
            n == Len(b)
        IN /\ Len(outcomes) = n
           /\ \A i \in 1..(n - 1) : DayNumber(b[i].date) < DayNumber(b[i + 1].date)
           /\ ( /\ \A i \in 1..n : outcomes[i].tag \in {"error", "num"}
                /\ \E i \in 1..n : outcomes[i].tag = "num" )
              => LET good == SelectSeq([i \in 1..n |-> [b |-> b[i], o |-> outcomes[i]]],
                                       LAMBDA x : x.o.tag = "num")
                     k == Cardinality({i \in 1..n : outcomes[i].tag = "error"})
                 IN /\ exPc # "nodata"
                    /\ Len(series) = n - k
                    /\ Len(good) = n - k
                    /\ \A j \in 1..Len(series) :
                          /\ series[j].label = good[j].b.label
                          /\ series[j].date = good[j].b.date

\* C1 witness: three buckets, the middle one failed, two points returned
C1_Witness ==
    /\ exPc = "returned"
    /\ TagsOf(outcomes) = <<"num", "error", "num">>
    /\ Len(series) = 2

\* C2: the executor ends with the no-valid-data error exactly when every
\* bucket has been attempted and none produced a valid value, and never
\* while buckets remain.
C2_NoValidDataIffNothingValid ==
    LET n == Len(Buckets(exPlan, exTz))
    IN /\ exPc = "nodata" =>
            /\ Len(outcomes) = n
            /\ \A i \in 1..n : outcomes[i].tag # "num"
       /\ exPc \in {"map", "returned", "maperror"} =>
            /\ Len(outcomes) = n
            /\ \E i \in 1..n : outcomes[i].tag = "num"
       /\ exPc = "loop" => Len(outcomes) < n

\* C2 witness: three buckets failed in three different ways
C2_Witness ==
    /\ exPc = "nodata"
    /\ TagsOf(outcomes) = <<"error", "null", "nan">>

\* C3: a bucket adds a point exactly when its reduction succeeded with a
\* value that is not null, undefined or NaN; any other bucket leaves the
\* series as it was, and a value of 0 is a point like any other.
C3_PointIffValidValue ==
    [][ Len(outcomes') = Len(outcomes) + 1 =>
          LET o == outcomes'[Len(outcomes')]
              b == Buckets(exPlan, exTz)[Len(outcomes')]
          IN IF o.tag = "num"
             THEN /\ Len(series') = Len(series) + 1
                  /\ SubSeq(series', 1, Len(series)) = series
                  /\ series'[Len(series')].label = b.label
                  /\ series'[Len(series')].date = b.date
                  /\ exPlan.dataProduct \in {"ndvi", "precipitation"}
                        => series'[Len(series')].value = o.v
             ELSE series' = series ]_vars

\* C3 witness: a bucket answered 0 and is in the series, another answered
\* undefined and is not
C3_Witness ==
    /\ exPlan.dataProduct = "ndvi"
    /\ TagsOf(outcomes) = <<"undefined", "num">>
    /\ outcomes[2].v = 0
    /\ Len(series) = 1
    /\ series[1].value = 0

(***************************************************************************)
(* The cache key: generateCacheKey.  Strings are sequences of characters,  *)
(* so that JSON.stringify, Array.prototype.sort and the template string    *)
(* are computed character by character.                                    *)
(***************************************************************************)
MaxDatasets == 2        \* how many datasetIds a plan may list

\* the printable ASCII characters in code-unit order: from the space (32)
\* to the underscore (95), and from "a" (97) to the tilde (126)
AsciiLow ==
    <<" ","!","\"","#","$","%","&","'","(",")","*","+",",","-",".",
          "/","0","1","2","3","4","5","6","7","8","9",":",";","<","=",
          ">","?","@","A","B","C","D","E","F","G","H","I","J","K","L",
          "M","N","O","P","Q","R","S","T","U","V","W","X","Y","Z","[",
          "\\","]","^","_">>

AsciiHigh ==
    <<"a","b","c","d","e","f","g","h","i","j","k","l","m","n","o","p",
          "q","r","s","t","u","v","w","x","y","z","{","|","}","~">>

\* String.prototype.charCodeAt
CodeUnit(c) ==
    IF \E i \in 1..Len(AsciiLow) : AsciiLow[i] = c
    THEN 31 + CHOOSE i \in 1..Len(AsciiLow) : AsciiLow[i] = c
    ELSE 96 + CHOOSE i \in 1..Len(AsciiHigh) : AsciiHigh[i] = c

RECURSIVE Concat(_)
\* the concatenation of a sequence of strings
Concat(ss) == IF ss = <<>> THEN <<>> ELSE Head(ss) \o Concat(Tail(ss))

\* a < b for two strings, as the default comparison of Array.prototype.sort
RECURSIVE StringLess(_, _)
StringLess(a, b) ==
    IF b = <<>> THEN FALSE
    ELSE IF a = <<>> THEN TRUE
    ELSE IF Head(a) = Head(b) THEN StringLess(Tail(a), Tail(b))
    ELSE CodeUnit(Head(a)) < CodeUnit(Head(b))

\* one step of an insertion sort: x goes before the first element above it
RECURSIVE SortedInsert(_, _)
SortedInsert(s, x) ==
    IF s = <<>> THEN <<x>>
    ELSE IF StringLess(x, Head(s)) THEN <<x>> \o s
    ELSE <<Head(s)>> \o SortedInsert(Tail(s), x)

RECURSIVE SortStrings(_)
SortStrings(s) ==
    IF s = <<>> THEN <<>>
    ELSE SortedInsert(SortStrings(SubSeq(s, 1, Len(s) - 1)), s[Len(s)])

\* a faulty variant (told apart by C7): the datasetIds in the order the plan lists them
KeepOrder(ids) == ids

\* [...plan.datasetIds].sort()
SortedDatasets(ids) == SortStrings(ids)

RECURSIVE EscapeChars(_)
\* the escapes of JSON.stringify for the quote and the backslash
EscapeChars(s) ==
    IF s = <<>> THEN <<>>
    ELSE (IF Head(s) \in {"\"", "\\"} THEN <<"\\", Head(s)>> ELSE <<Head(s)>>)
         \o EscapeChars(Tail(s))

\* JSON.stringify of a string
JsonString(s) == <<"\"">> \o EscapeChars(s) \o <<"\"">>

Digits == <<"0", "1", "2", "3", "4", "5", "6", "7", "8", "9">>

RECURSIVE NatString(_)
NatString(n) ==
    IF n < 10 THEN <<Digits[n + 1]>>
    ELSE NatString(n \div 10) \o <<Digits[(n % 10) + 1]>>

\* JSON.stringify of an integer
JsonNumber(n) == IF n < 0 THEN <<"-">> \o NatString(-n) ELSE NatString(n)

RECURSIVE JoinComma(_)
JoinComma(ss) ==
    IF ss = <<>> THEN <<>>
    ELSE IF Len(ss) = 1 THEN ss[1]
    ELSE ss[1] \o <<",">> \o JoinComma(Tail(ss))

\* JSON.stringify of an array whose elements are already serialized
JsonArray(ss) == <<"[">> \o JoinComma(ss) \o <<"]">>

\* plan.location is a place name or a bounding box
JsonLocation(loc) ==
    IF loc.kind = "name" THEN JsonString(loc.name)
    ELSE JsonArray([i \in 1..Len(loc.bbox) |-> JsonNumber(loc.bbox[i])])

\* JSON.stringify(normalizedPlan): the keys in the order the literal lists them
keyString(plan) ==
    LET datasets == SortedDatasets(plan.datasetIds)
    IN Concat(<<
         <<"{","\"","a","n","a","l","y","s","i","s","T","y","p","e","\"",
               ":">>,
         JsonString(plan.analysisType),
         <<",","\"","d","a","t","a","s","e","t","s","\"",":">>,
         JsonArray([i \in 1..Len(datasets) |-> JsonString(datasets[i])]),
         <<",","\"","t","i","m","e","R","a","n","g","e","\"",":","{","\"",
               "s","t","a","r","t","\"",":">>,
         JsonString(plan.timeRange.start),
         <<",","\"","e","n","d","\"",":">>,
         JsonString(plan.timeRange.end),
         <<"}",",","\"","l","o","c","a","t","i","o","n","\"",":">>,
         JsonLocation(plan.location),
         <<"}">> >>)

\* createHash("sha256")...substring(0, 16): the digest is taken to be
\* injective, so it is modelled by the string it digests
HashPrefix(s) == s

generateCacheKey(plan) ==
    <<"a","n","a","l","y","s","i","s",":">> \o HashPrefix(keyString(plan))

KeyAnalysisTypes ==
    { <<"t","i","m","e","s","e","r","i","e","s">>,
      <<"c","h","a","n","g","e">> }

S2_SR ==
    <<"C","O","P","E","R","N","I","C","U","S","/","S","2","_","S","R">>

S1_GRD ==
    <<"C","O","P","E","R","N","I","C","U","S","/","S","1","_","G","R",
          "D">>

KeyDatasetIds == {S2_SR, S1_GRD}

KeyDatasetLists ==
    UNION { [1..n -> KeyDatasetIds] : n \in 1..MaxDatasets }

KeyDates ==
    << <<"2","0","2","3","-","0","1","-","0","1">>,
       <<"2","0","2","3","-","0","6","-","3","0">>,
       <<"2","0","2","3","-","1","2","-","3","1">> >>

KeyRanges ==
    { [start |-> KeyDates[1], end |-> KeyDates[2]],
      [start |-> KeyDates[1], end |-> KeyDates[3]],
      [start |-> KeyDates[2], end |-> KeyDates[3]] }

KeyLocations ==
    { [kind |-> "name", name |-> <<"a","\"","\\">>, bbox |-> <<>>],
      [kind |-> "name", name |-> <<"[","1",",","2",",","3",",","4","]">>, bbox |-> <<>>],
      [kind |-> "bbox", name |-> <<>>, bbox |-> <<1, 2, 3, 4>>],
      [kind |-> "bbox", name |-> <<>>, bbox |-> <<-1, 2, 3, 40>>] }

KeyPlans ==
    { [analysisType |-> a, datasetIds |-> ds, timeRange |-> r, location |-> l] :
        a \in KeyAnalysisTypes, ds \in KeyDatasetLists,
        r \in KeyRanges, l \in KeyLocations }

KeyInit ==
    /\ keyPlanA \in KeyPlans
    /\ keyPlanB \in KeyPlans
    /\ keyA = <<>>
    /\ keyB = <<>>

\* generateCacheKey(planA)
GenerateKeyA ==
    /\ keyA = <<>>
    /\ keyA' = generateCacheKey(keyPlanA)
    /\ UNCHANGED <<keyPlanA, keyPlanB, keyB>>
    /\ UNCHANGED <<cacheVars, execVars, guardVars, resolveVars, changeVars, statVars, geoVars, eeVars>>

\* generateCacheKey(planB)
GenerateKeyB ==
    /\ keyB = <<>>
    /\ keyB' = generateCacheKey(keyPlanB)
    /\ UNCHANGED <<keyPlanA, keyPlanB, keyA>>
    /\ UNCHANGED <<cacheVars, execVars, guardVars, resolveVars, changeVars, statVars, geoVars, eeVars>>

NextKey == GenerateKeyA \/ GenerateKeyB

Occurrences(s, x) == Cardinality({i \in 1..Len(s) : s[i] = x})

\* C7: two plans that differ only in the order of their datasetIds get the
\* same key, and (the digest being injective) two plans whose location or
\* timeRange differ get different keys.
C7_KeyOrderAndDistinctness ==
    (keyA # <<>> /\ keyB # <<>>) =>
        /\ ( /\ keyPlanA.analysisType = keyPlanB.analysisType
             /\ keyPlanA.timeRange = keyPlanB.timeRange
             /\ keyPlanA.location = keyPlanB.location
             /\ Len(keyPlanA.datasetIds) = Len(keyPlanB.datasetIds)
             /\ \A x \in KeyDatasetIds :
                   Occurrences(keyPlanA.datasetIds, x) = Occurrences(keyPlanB.datasetIds, x) )
           => keyA = keyB
        /\ ( \/ keyPlanA.location # keyPlanB.location
             \/ keyPlanA.timeRange # keyPlanB.timeRange )
           => keyA # keyB

\* C7 witness: the same two datasetIds in the two orders, one key
C7_Witness ==
    /\ keyA # <<>>
    /\ keyA = keyB
    /\ keyPlanA.datasetIds = <<S2_SR, S1_GRD>>
    /\ keyPlanB.datasetIds = <<S1_GRD, S2_SR>>

(***************************************************************************)
(* The guardrail engine (validateAnalysisPlan of guardrails.ts) and the    *)
(* head of the run route that calls it.  A plan is the object the caller   *)
(* hands over: the fields of the plan schema, and possibly a datasets      *)
(* array, which the schema does not know.  A message is a sequence of      *)
(* the pieces of its template string.                                      *)
(***************************************************************************)
MaxExtraDays == 1       \* how many days around the five-year mark a range ends

MAX_TIME_RANGE_YEARS == 5

MAX_AOI_SIZE_DEGREES == 10

ALLOWED_ANALYSIS_TYPES ==
    <<"ndvi_change", "ndvi_timeseries", "ndvi_anomaly", "seasonal_trend">>

ALLOWED_DATASETS == <<"sentinel2", "landsat8", "modis">>

\* plan.datasets of a plan that has no such property
Undefined == <<"undefined">>

\* the error of a result that has none, and its warnings likewise
NoError == <<>>

NoWarnings == <<>>

\* new Date() of a string it cannot read, e.g. "2023-13-45"
InvalidDate == Date(0, 0, 0)

\* the days of the year that yearsDiff divides by
DaysPerYear == 365

ElementsOf(s) == {s[i] : i \in 1..Len(s)}

\* Array.prototype.join(", ") of strings, as pieces
RECURSIVE JoinWith(_, _)
JoinWith(ss, sep) ==
    IF ss = <<>> THEN <<>>
    ELSE IF Len(ss) = 1 THEN <<ss[1]>>
    ELSE <<ss[1], sep>> \o JoinWith(Tail(ss), sep)

\* errors.join(" "): the messages, each a sequence of pieces, with a space between
RECURSIVE JoinMessages(_)
JoinMessages(ms) ==
    IF ms = <<>> THEN <<>>
    ELSE IF Len(ms) = 1 THEN ms[1]
    ELSE ms[1] \o <<" ">> \o JoinMessages(Tail(ms))

Valid == [valid |-> TRUE, error |-> NoError, warnings |-> NoWarnings]

Invalid(msg) == [valid |-> FALSE, error |-> msg, warnings |-> NoWarnings]

ValidWithWarnings(ws) == [valid |-> TRUE, error |-> NoError, warnings |-> ws]

\* yearsDiff.toFixed(1), in tenths of a year
YearsDiffTenths(days) == (days * 20 + DaysPerYear) \div (2 * DaysPerYear)

TimeRangeTooLarge(days) ==
    <<"Time range too large. Maximum allowed: ">>
    \o NatString(MAX_TIME_RANGE_YEARS) \o <<" years. Your request: ">>
    \o NatString(YearsDiffTenths(days) \div 10) \o <<".">>
    \o NatString(YearsDiffTenths(days) % 10) \o <<" years.">>

Before2015Warning ==
    <<"Start date is before 2015. Some datasets may have limited availability for this period.">>

validateTimeRange(plan, today) ==
    LET start == plan.timeRange.start
        end   == plan.timeRange.end
    IN IF start = InvalidDate \/ end = InvalidDate
       THEN Invalid(<<"Invalid date format. Please use YYYY-MM-DD format.">>)
       ELSE IF DayNumber(start) >= DayNumber(end)
       THEN Invalid(<<"Start date must be before end date.">>)
       ELSE IF DayNumber(end) - DayNumber(start) > MAX_TIME_RANGE_YEARS * DaysPerYear
       THEN Invalid(TimeRangeTooLarge(DayNumber(end) - DayNumber(start)))
       ELSE IF DayNumber(end) > today
       THEN Invalid(<<"End date cannot be in the future.">>)
       ELSE IF DayNumber(start) < DayNumber(Date(2015, 1, 1))
       THEN ValidWithWarnings(<<Before2015Warning>>)
       ELSE Valid

validateAnalysisType(plan) ==
    IF plan.analysisType \notin ElementsOf(ALLOWED_ANALYSIS_TYPES)
    THEN Invalid(<<"Unsupported analysis type: \"", plan.analysisType,
                   "\". Supported types: ">>
                 \o JoinWith(ALLOWED_ANALYSIS_TYPES, ", "))
    ELSE Valid

\* reads plan.datasets; only called when that property is an array
validateDatasets(plan) ==
    LET unsupportedDatasets ==
            SelectSeq(plan.datasets, LAMBDA ds : ds \notin ElementsOf(ALLOWED_DATASETS))
    IN IF Len(unsupportedDatasets) > 0
       THEN Invalid(<<"Unsupported datasets: ">> \o JoinWith(unsupportedDatasets, ", ")
                    \o <<". Supported datasets: ">> \o JoinWith(ALLOWED_DATASETS, ", "))
       ELSE Valid

\* a faulty variant (told apart by C11): a box of exactly the maximum is too large
AreaAtLeastMax(width, height) ==
    width >= MAX_AOI_SIZE_DEGREES \/ height >= MAX_AOI_SIZE_DEGREES

\* width > MAX_AOI_SIZE_DEGREES || height > MAX_AOI_SIZE_DEGREES
AreaTooLarge(width, height) ==
    width > MAX_AOI_SIZE_DEGREES \/ height > MAX_AOI_SIZE_DEGREES

\* (the degree signs of the last message are left out)
validateLocation(plan) ==
    LET location == plan.location
    IN IF location.kind = "name" THEN Valid
       ELSE LET west  == location.bbox[1]
                south == location.bbox[2]
                east  == location.bbox[3]
                north == location.bbox[4]
                width  == east - west
                height == north - south
            IN IF west < -180 \/ west > 180 \/ east < -180 \/ east > 180
               THEN Invalid(<<"Longitude must be between -180 and 180.">>)
               ELSE IF south < -90 \/ south > 90 \/ north < -90 \/ north > 90
               THEN Invalid(<<"Latitude must be between -90 and 90.">>)
               ELSE IF west >= east
               THEN Invalid(<<"West longitude must be less than east longitude.">>)
               ELSE IF south >= north
               THEN Invalid(<<"South latitude must be less than north latitude.">>)
               ELSE IF AreaTooLarge(width, height)
               THEN Invalid(<<"Area of interest too large. Maximum: ">>
                            \o NatString(MAX_AOI_SIZE_DEGREES) \o <<" x ">>
                            \o NatString(MAX_AOI_SIZE_DEGREES)
                            \o <<". Your request: ">> \o NatString(width)
                            \o <<".00 x ">> \o NatString(height) \o <<".00.">>)
               ELSE Valid

\* the elements of the validations array that are evaluated: the third one
\* throws a TypeError when plan.datasets is undefined, and the fourth is
\* then never reached
Validations(plan, today) ==
    IF plan.datasets = Undefined
    THEN <<validateTimeRange(plan, today), validateAnalysisType(plan)>>
    ELSE <<validateTimeRange(plan, today), validateAnalysisType(plan),
           validateDatasets(plan), validateLocation(plan)>>

RECURSIVE CollectErrors(_)
CollectErrors(vs) ==
    IF vs = <<>> THEN <<>>
    ELSE (IF ~Head(vs).valid /\ Head(vs).error # NoError
          THEN <<Head(vs).error>> ELSE <<>>) \o CollectErrors(Tail(vs))

RECURSIVE CollectWarnings(_)
CollectWarnings(vs) ==
    IF vs = <<>> THEN <<>>
    ELSE (IF Head(vs).warnings # NoWarnings THEN Head(vs).warnings ELSE <<>>)
         \o CollectWarnings(Tail(vs))

Thrown ==
    [called |-> TRUE, thrown |-> TRUE, valid |-> FALSE,
     error |-> NoError, warnings |-> NoWarnings]

Returned(r) ==
    [called |-> TRUE, thrown |-> FALSE, valid |-> r.valid,
     error |-> r.error, warnings |-> r.warnings]

\* validateAnalysisPlan of guardrails.ts: what the call returns, or Thrown
validateGuardrails(plan, today) ==
    IF plan.datasets = Undefined THEN Thrown
    ELSE LET validations == Validations(plan, today)
             errors   == CollectErrors(validations)
             warnings == CollectWarnings(validations)
         IN IF Len(errors) > 0
            THEN Returned([valid |-> FALSE, error |-> JoinMessages(errors),
                           warnings |-> IF Len(warnings) > 0 THEN warnings ELSE NoWarnings])
            ELSE Returned([valid |-> TRUE, error |-> NoError,
                           warnings |-> IF Len(warnings) > 0 THEN warnings ELSE NoWarnings])

\* the values of analysisTypeEnum the model uses
SchemaAnalysisTypes == {"seasonal_trend", "timeseries"}

\* the values of datasetIdEnum the model uses
SchemaDatasetIds == {"COPERNICUS/S2_SR"}

AddYears(dt, n) == Date(dt.y + n, dt.m, dt.d)

GuardStarts == {Date(2014, 6, 1), Date(2019, 1, 1)}

GuardEnds(s) ==
    { DateOfDay(DayNumber(AddYears(s, MAX_TIME_RANGE_YEARS)) + e) :
        e \in (-MaxExtraDays)..MaxExtraDays }
    \cup {DateOfDay(DayNumber(s) + 30), s, InvalidDate}

GuardLocations ==
    { [kind |-> "name", name |-> "Tokyo", bbox |-> <<>>],
      [kind |-> "bbox", name |-> "", bbox |-> <<0, 0, 10, 10>>],
      [kind |-> "bbox", name |-> "", bbox |-> <<0, 0, 11, 5>>],
      [kind |-> "bbox", name |-> "", bbox |-> <<5, 0, 5, 1>>] }

GuardPlans ==
    { [analysisType |-> a, datasetIds |-> ids, datasets |-> ds,
       timeRange |-> [start |-> s, end |-> e], location |-> l] :
        a \in SchemaAnalysisTypes,
        ids \in {<<"COPERNICUS/S2_SR">>, <<>>},
        ds \in {Undefined, <<"sentinel2">>, <<"sentinel2", "COPERNICUS/S2_SR">>},
        s \in GuardStarts,
        e \in UNION {GuardEnds(s0) : s0 \in GuardStarts},
        l \in GuardLocations }

\* the days new Date() of validateTimeRange may fall on
GuardTodays == {DayNumber(Date(2021, 1, 1)), DayNumber(Date(2026, 1, 1))}

NotCalled ==
    [called |-> FALSE, thrown |-> FALSE, valid |-> FALSE,
     error |-> NoError, warnings |-> NoWarnings]

\* analysisPlanSchema.parse accepts the plan
SchemaValid(plan) ==
    /\ plan.analysisType \in SchemaAnalysisTypes
    /\ Len(plan.datasetIds) >= 1
    /\ ElementsOf(plan.datasetIds) \subseteq SchemaDatasetIds
    /\ plan.location.kind = "bbox" =>
          /\ plan.location.bbox[1] >= -180 /\ plan.location.bbox[1] <= 180
          /\ plan.location.bbox[2] >= -90 /\ plan.location.bbox[2] <= 90
          /\ plan.location.bbox[3] >= -180 /\ plan.location.bbox[3] <= 180
          /\ plan.location.bbox[4] >= -90 /\ plan.location.bbox[4] <= 90

\* what parse returns: a z.object drops the keys the schema does not name
SchemaParse(plan) == [plan EXCEPT !.datasets = Undefined]

GuardInit ==
    /\ gPlan \in GuardPlans
    /\ gToday \in GuardTodays
    /\ gChecks = <<>>
    /\ gResult = NotCalled
    /\ runPc = "request"

\* a caller hands gPlan to validateAnalysisPlan as it is
CallGuardrails ==
    /\ ~gResult.called
    /\ gChecks' = Validations(gPlan, gToday)
    /\ gResult' = validateGuardrails(gPlan, gToday)
    /\ UNCHANGED <<gPlan, gToday, runPc>>
    /\ UNCHANGED <<cacheVars, execVars, keyVars, resolveVars, changeVars, statVars, geoVars, eeVars>>

\* POST of the run route with gPlan as body.plan, up to the cache probe
RunRoute ==
    /\ runPc = "request"
    /\ runPc' =
         IF ~SchemaValid(gPlan) THEN "400 Invalid analysis plan"
         ELSE LET validatedPlan    == SchemaParse(gPlan)
                  guardrailsResult == validateGuardrails(validatedPlan, gToday)
              IN IF guardrailsResult.thrown THEN "500 Analysis failed"
                 ELSE IF ~guardrailsResult.valid THEN "400 Request validation failed"
                 ELSE "cache probe"
    /\ UNCHANGED <<gPlan, gToday, gChecks, gResult>>
    /\ UNCHANGED <<cacheVars, execVars, keyVars, resolveVars, changeVars, statVars, geoVars, eeVars>>

NextGuard == CallGuardrails \/ RunRoute

\* C8: every call of the guardrail engine evaluates the four checks and
\* returns a result; when some check fails the result is invalid and its
\* error is the messages of the failing checks, in check order, joined.
C8_AllChecksEvaluatedAndJoined ==
    gResult.called =>
        /\ Len(gChecks) = 4
        /\ ~gResult.thrown
        /\ LET failing == SelectSeq(gChecks, LAMBDA r : ~r.valid)
           IN Len(failing) > 0 =>
                /\ ~gResult.valid
                /\ gResult.error =
                     JoinMessages([i \in 1..Len(failing) |-> failing[i].error])

\* C9: the time-range check accepts a range that ends five years to the
\* day after its start (and not in the future), and rejects a range that
\* ends one day later than that.
C9_FiveYearBoundary ==
    ( /\ gResult.called
      /\ gPlan.timeRange.end # InvalidDate )
    => LET s     == gPlan.timeRange.start
           e     == gPlan.timeRange.end
           limit == DayNumber(AddYears(s, MAX_TIME_RANGE_YEARS))
       IN /\ (DayNumber(e) = limit /\ limit <= gToday) => gChecks[1].valid
          /\ DayNumber(e) = limit + 1 => ~gChecks[1].valid

\* C10: a plan none of whose checks fails is reported valid, with the
\* warning of a start before 2015 in the result, and a run request with
\* that plan goes on to the cache probe.
C10_WarningKeepsValidAndRunContinues ==
    ( /\ gResult.called
      /\ ~gResult.thrown
      /\ \A i \in 1..Len(gChecks) : gChecks[i].valid )
    => /\ gResult.valid
       /\ DayNumber(gPlan.timeRange.start) < DayNumber(Date(2015, 1, 1))
            => /\ gResult.warnings # NoWarnings
               /\ Before2015Warning \in ElementsOf(gResult.warnings)
       /\ (runPc # "request" /\ SchemaValid(gPlan)) => runPc = "cache probe"

(***************************************************************************)
(* The area check on its own: plans that differ only in their location,    *)
(* the boxes drawn from a grid around every limit of validateLocation.     *)
(***************************************************************************)
AreaLongitudes == {-181, -180, -5, 0, 5, 6, 180, 181}

AreaLatitudes == {-91, -90, -5, 0, 5, 6, 90, 91}

AreaLocations ==
    { [kind |-> "bbox", name |-> "", bbox |-> <<w, s, e, n>>] :
        w \in AreaLongitudes, s \in AreaLatitudes,
        e \in AreaLongitudes, n \in AreaLatitudes }
    \cup { [kind |-> "name", name |-> nm, bbox |-> <<>>] : nm \in {"Tokyo", "Atlantis"} }

AreaPlans ==
    { [analysisType |-> "seasonal_trend", datasetIds |-> <<"COPERNICUS/S2_SR">>,
       datasets |-> ds,
       timeRange |-> [start |-> Date(2019, 1, 1), end |-> Date(2019, 1, 31)],
       location |-> l] :
        ds \in {Undefined, <<"sentinel2">>}, l \in AreaLocations }

AreaInit ==
    /\ gPlan \in AreaPlans
    /\ gToday \in GuardTodays
    /\ gChecks = <<>>
    /\ gResult = NotCalled
    /\ runPc = "request"

\* C11: the area check passes every named location, and passes a box
\* exactly when -180 <= west < east <= 180, -90 <= south < north <= 90 and
\* neither its width nor its height exceeds 10 degrees.
C11_AreaCheck ==
    Len(gChecks) = 4 =>
        LET l == gPlan.location
        IN gChecks[4].valid <=>
             \/ l.kind = "name"
             \/ /\ -180 <= l.bbox[1] /\ l.bbox[1] < l.bbox[3] /\ l.bbox[3] <= 180
                /\ -90 <= l.bbox[2] /\ l.bbox[2] < l.bbox[4] /\ l.bbox[4] <= 90
                /\ l.bbox[3] - l.bbox[1] <= 10
                /\ l.bbox[4] - l.bbox[2] <= 10

\* C11 witness: a box of exactly 10 by 10 degrees passed the area check
C11_Witness ==
    /\ Len(gChecks) = 4
    /\ gPlan.location.kind = "bbox"
    /\ gPlan.location.bbox = <<-5, -5, 5, 5>>
    /\ gChecks[4].valid

\* a check of the guardrail policy, taken on its own, rejects the plan
FailsPolicy(plan, today) ==
    \/ ~validateTimeRange(plan, today).valid
    \/ ~validateAnalysisType(plan).valid
    \/ ~validateLocation(plan).valid

\* the responses of the run route that are sent before the cache probe,
\* hence before the first remote call (initializeEarthEngine)
ClientErrors == {"400 Invalid analysis plan", "400 Request validation failed"}

\* C12: a run request whose plan fails the schema or a guardrail check (a
\* box with west >= east, say) is answered with a client error, before
\* any remote call, and the cache stays as it was.
C12_RejectedBeforeRemote ==
    [][ ( /\ runPc = "request"
          /\ runPc' # "request"
          /\ (~SchemaValid(gPlan) \/ FailsPolicy(gPlan, gToday)) )
        => /\ runPc' \in ClientErrors
           /\ cache' = cache ]_vars

\* C13: once a run request has passed the schema and the guardrail policy
\* the cache is probed with the plan's key; an artifact is written only
\* after resolution, workflow and statistics have succeeded.
C13_CacheProbedAfterGuardrails ==
    ( /\ runPc # "request"
      /\ SchemaValid(gPlan)
      /\ ~FailsPolicy(gPlan, gToday) )
    => /\ runPc = "cache probe"
       /\ cache = <<>>

(***************************************************************************)
(* resolveWorkflow (src/lib/gee/workflows/index.ts): the executor for the  *)
(* plan's dataProduct.  A returned executor is stood for by its name, a    *)
(* thrown Error by the product and the list its message gives after        *)
(* "Currently supported:".                                                 *)
(***************************************************************************)
dataProductEnum ==
    <<"vegetation", "water", "urban", "temperature", "precipitation",
      "soil_moisture", "elevation", "landcover", "nightlights", "population",
      "air_quality", "other">>

ReturnExecutor(name) == [threw |-> FALSE, executor |-> name, product |-> "", supported |-> <<>>]

ThrowNoWorkflow(product, supported) ==
    [threw |-> TRUE, executor |-> "", product |-> product, supported |-> supported]

\* a faulty variant (told apart by C14): the switch without the water and
\* air_quality cases
resolveWorkflowThreeCases(plan) ==
    CASE plan.dataProduct = "vegetation" -> ReturnExecutor("executeNDVIWorkflow")
      [] plan.dataProduct = "temperature" -> ReturnExecutor("executeTemperatureWorkflow")
      [] plan.dataProduct = "precipitation" -> ReturnExecutor("executePrecipitationWorkflow")
      [] OTHER -> ThrowNoWorkflow(plan.dataProduct,
                      <<"vegetation", "temperature", "precipitation">>)

resolveWorkflow(plan) ==
    CASE plan.dataProduct = "vegetation" -> ReturnExecutor("executeNDVIWorkflow")
      [] plan.dataProduct = "temperature" -> ReturnExecutor("executeTemperatureWorkflow")
      [] plan.dataProduct = "precipitation" -> ReturnExecutor("executePrecipitationWorkflow")
      [] plan.dataProduct = "water" -> ReturnExecutor("executeWaterWorkflow")
      [] plan.dataProduct = "air_quality" -> ReturnExecutor("executeAirQualityWorkflow")
      [] OTHER -> ThrowNoWorkflow(plan.dataProduct,
                      <<"vegetation", "temperature", "precipitation", "water", "air_quality">>)

analysisTypeEnum ==
    <<"timeseries", "change", "anomaly", "seasonal_trend", "single_date_map", "zonal_statistics">>

ResolvePlans ==
    { [analysisType |-> a, dataProduct |-> p, datasetIds |-> ids] :
        a \in ElementsOf(analysisTypeEnum),
        p \in ElementsOf(dataProductEnum),
        ids \in {<<"COPERNICUS/S2_SR">>, <<"ESA/WorldCover/v200">>} }

ResolveInit ==
    /\ rwPlan \in ResolvePlans
    /\ rwResult = <<>>

\* one call of resolveWorkflow; nothing remote is touched by it
Resolve ==
    /\ rwResult = <<>>
    /\ rwResult' = <<resolveWorkflow(rwPlan)>>
    /\ UNCHANGED rwPlan
    /\ UNCHANGED <<cacheVars, execVars, keyVars, guardVars, changeVars, statVars, geoVars, eeVars>>

\* the switch on plan.analysisType at the end of each executor module: the
\* branch it calls, or "unsupported" for the Error its default case throws
WorkflowBranch(executor, analysisType) ==
    CASE executor = "executeNDVIWorkflow" ->
            IF analysisType \in {"ndvi_timeseries", "seasonal_trend"} THEN "timeseries"
            ELSE IF analysisType \in {"ndvi_change", "ndvi_anomaly"} THEN "change"
            ELSE "unsupported"
      [] executor = "executeTemperatureWorkflow" ->
            IF analysisType \in {"timeseries", "seasonal_trend"} THEN "timeseries"
            ELSE IF analysisType \in {"change", "anomaly"} THEN "change"
            ELSE "unsupported"
      [] OTHER ->
            IF analysisType \in {"timeseries", "seasonal_trend", "single_date_map",
                                 "zonal_statistics"} THEN "timeseries"
            ELSE IF analysisType \in {"change", "anomaly"} THEN "change"
            ELSE "unsupported"

\* the returned executor is called with the plan and reaches its switch
Dispatch ==
    /\ Len(rwResult) = 1
    /\ ~rwResult[1].threw
    /\ rwResult' = Append(rwResult,
                      [branch |-> WorkflowBranch(rwResult[1].executor, rwPlan.analysisType)])
    /\ UNCHANGED rwPlan
    /\ UNCHANGED <<cacheVars, execVars, keyVars, guardVars, changeVars, statVars, geoVars, eeVars>>

NextResolve == Resolve \/ Dispatch

\* C26: for every mapped dataProduct and every analysisType of the schema
\* the selected executor dispatches to its time-series or its change branch;
\* none ends in 'unsupported analysis type'.
C26_EverySchemaTypeDispatches ==
    Len(rwResult) = 2 => rwResult[2].branch \in {"timeseries", "change"}


\* the categories the switch has a case for
MappedProducts ==
    { p \in ElementsOf(dataProductEnum) : ~resolveWorkflow([dataProduct |-> p]).threw }

filterDate(start, end) == DayNumber(start)..(DayNumber(end) - 1)

\* startDate and endDate of the bucket's loop body
BucketWindow(plan, b) ==
    IF plan.dataProduct = "water"
    THEN [start |-> Date(b.label[1], 1, 1), end |-> Date(b.label[1], 12, 31)]
    ELSE LET lastDay == DaysInMonth(b.label[1], b.label[2])
         IN [start |-> Date(b.label[1], b.label[2], 1),
             end |-> Date(b.label[1], b.label[2], lastDay)]

\* the days a bucket reduces: the collection is filtered to the plan's range
\* first and to the bucket's window next
BucketDays(plan, b) ==
    filterDate(plan.timeRange.start, plan.timeRange.end)
        \cap filterDate(BucketWindow(plan, b).start, BucketWindow(plan, b).end)

\* the calendar months, or years, from the one of start through the one of end
CalendarLabels(plan) ==
    IF plan.dataProduct = "water"
    THEN [i \in 1..(plan.timeRange.end.y - plan.timeRange.start.y + 1) |->
              <<plan.timeRange.start.y + i - 1>>]
    ELSE [i \in 1..(MonthIndex(plan.timeRange.end) - MonthIndex(plan.timeRange.start) + 1) |->
              <<MonthOfIndex(MonthIndex(plan.timeRange.start) + i - 1).y,
                MonthOfIndex(MonthIndex(plan.timeRange.start) + i - 1).m>>]

BucketLabels(plan, tz) == [i \in 1..Len(Buckets(plan, tz)) |-> Buckets(plan, tz)[i].label]

RangeInOrder(plan) == DayNumber(plan.timeRange.start) <= DayNumber(plan.timeRange.end)

\* C15: the buckets of a range are exactly the calendar months (years for
\* the yearly executor) from the month of its start through the month of
\* its end, in order, none twice, none missing.
C15_OneBucketPerCalendarMonth ==
    (exPc \notin {Idle, "start"} /\ RangeInOrder(exPlan))
        => BucketLabels(exPlan, exTz) = CalendarLabels(exPlan)

\* C16: the bucket windows are contiguous [start, end) windows on calendar
\* boundaries: each covers its whole month (year) up to the first day of
\* the next, each ends where the next starts, and every day of the range
\* is in exactly one bucket.
C16_WindowsContiguousAndCovering ==
    (exPc \notin {Idle, "start"} /\ RangeInOrder(exPlan))
        => LET b == Buckets(exPlan, exTz)
               w == [i \in 1..Len(b) |-> BucketWindow(exPlan, b[i])]
           IN /\ \A i \in 1..Len(b) :
                    /\ w[i].start.d = 1
                    /\ DateOfDay(DayNumber(w[i].end)).d = 1
              /\ \A i \in 1..(Len(b) - 1) : w[i].end = w[i + 1].start
              /\ \A d \in filterDate(exPlan.timeRange.start, exPlan.timeRange.end) :
                    Cardinality({j \in 1..Len(b) : d \in BucketDays(exPlan, b[j])}) = 1

\* C17: the map composite is taken over the plan's whole range (by the
\* executors that map a composite) whatever the buckets answered, its answer does not depend on them either, and a
\* failed composite ends the executor with that error although the series
\* is not empty.
C17_CompositeIndependentNoFallback ==
    /\ exPc = "map" =>
          /\ Len(series) >= 1
          /\ ENABLED MapTile(TRUE)
          /\ ENABLED MapTile(FALSE)
    /\ mapTile.answer # "none" =>
          /\ exPlan.dataProduct # "water" =>
                mapTile.composite = filterDate(exPlan.timeRange.start, exPlan.timeRange.end)
          /\ Len(series) >= 1
    /\ mapTile.answer = "error" <=> exPc = "maperror"
    /\ mapTile.answer = "urlFormat" <=> exPc = "returned"

\* C17 witness: one bucket failed, one gave a point, the composite failed
C17_Witness ==
    /\ exPc = "maperror"
    /\ TagsOf(outcomes) = <<"num", "error">>
    /\ Len(series) = 1
    /\ mapTile.answer = "error"

(***************************************************************************)
(* The change-detection executors (executeNDVIChange, ...TemperatureChange,*)
(* ...PrecipitationChange, ...WaterChange, ...AirQualityChange).  Instants *)
(* are counted in half days from 1970-01-01T00:00Z, so that the midpoint   *)
(* of two dates is an integer.                                             *)
(***************************************************************************)
HalfDays(dt) == 2 * DayNumber(dt)

\* midDate: new Date((startDate.getTime() + endDate.getTime()) / 2)
MidInstant(timeRange) == DayNumber(timeRange.start) + DayNumber(timeRange.end)

\* midDate.toISOString().split("T")[0]: the UTC date of the midpoint
midDateStr(timeRange) == DateOfDay(MidInstant(timeRange) \div 2)

\* midDate.getFullYear(): the local year of the midpoint; at noon UTC the
\* local date is the UTC date in every zone of the model
midYear(timeRange, tz) ==
    IF MidInstant(timeRange) % 2 = 0
    THEN LocalDate(midDateStr(timeRange), tz).y
    ELSE midDateStr(timeRange).y

Window(from, to) == [from |-> HalfDays(from), to |-> HalfDays(to)]

\* the arguments of the two filterDate calls
ChangeWindows(plan, tz) ==
    IF plan.dataProduct = "water"
    THEN [before |-> Window(plan.timeRange.start, Date(midYear(plan.timeRange, tz), 12, 31)),
          after  |-> Window(Date(midYear(plan.timeRange, tz) + 1, 1, 1), plan.timeRange.end)]
    ELSE [before |-> Window(plan.timeRange.start, midDateStr(plan.timeRange)),
          after  |-> Window(midDateStr(plan.timeRange), plan.timeRange.end)]

\* what reduceRegion of (after - before) can answer for the band
ChangeAnswers ==
    { [tag |-> "error", v |-> 0], [tag |-> "null", v |-> 0],
      [tag |-> "num", v |-> 0], [tag |-> "num", v |-> 2], [tag |-> "num", v |-> -3] }

Num(v) == [tag |-> "num", v |-> v]

NaN == [tag |-> "nan", v |-> 0]

\* result[band] || 0
OrZero(r) == IF r.tag = "num" THEN r.v ELSE 0

\* a faulty variant (told apart by C24): every executor returns the delta
ChangeScalarDelta(plan, r) == Num(OrZero(r))

\* the value the executor resolves changeValue with
ChangeScalar(plan, r) ==
    CASE plan.dataProduct \in {"temperature", "precipitation"} -> Num(OrZero(r))
      [] plan.dataProduct \in {"ndvi", "water"} -> Num(OrZero(r) * 100)
      [] plan.dataProduct = "air_quality" ->
            \* (change / result[bandName]) * 100, and 0 / 0 and 0 / null are NaN
            IF OrZero(r) # 0 THEN Num((OrZero(r) \div OrZero(r)) * 100) ELSE NaN

ChangeStarts == {Date(2019, 1, 1), Date(2023, 12, 30)}

\* lengths of the range in days
ChangeSpans == {1, 2, 3, 4, 366, 1461}

ChangeRanges ==
    { [start |-> s, end |-> DateOfDay(DayNumber(s) + n)] : s \in ChangeStarts, n \in ChangeSpans }

ChangePlans ==
    { [dataProduct |-> t.dataProduct, datasetId |-> t.datasetId,
       band |-> t.band, timeRange |-> r] : t \in ExecTargets, r \in ChangeRanges }

ChangeInit ==
    /\ cdPlan \in ChangePlans
    /\ cdTz \in TimeZones
    /\ cdWindows = <<>>
    /\ cdScalar = <<>>
    /\ cdPc = "start"

\* from the call to the map request of the difference image
ChangeBegin ==
    /\ cdPc = "start"
    /\ IF cdPlan.dataProduct = "air_quality" /\ BandName(cdPlan) = NoBand
       THEN cdPc' = "unsupported" /\ UNCHANGED cdWindows
       ELSE cdPc' = "map" /\ cdWindows' = <<ChangeWindows(cdPlan, cdTz)>>
    /\ UNCHANGED <<cdPlan, cdTz, cdScalar>>
    /\ UNCHANGED <<cacheVars, execVars, keyVars, guardVars, resolveVars, statVars, geoVars, eeVars>>

\* getMapId of the difference image answers
ChangeMap(ok) ==
    /\ cdPc = "map"
    /\ cdPc' = IF ok THEN "reduce" ELSE "maperror"
    /\ UNCHANGED <<cdPlan, cdTz, cdWindows, cdScalar>>
    /\ UNCHANGED <<cacheVars, execVars, keyVars, guardVars, resolveVars, statVars, geoVars, eeVars>>

\* reduceRegion of the difference image answers
ChangeReduce(r) ==
    /\ cdPc = "reduce"
    /\ IF r.tag = "error"
       THEN cdPc' = "reduceerror" /\ UNCHANGED cdScalar
       ELSE cdPc' = "returned" /\ cdScalar' = <<[answer |-> r, value |-> ChangeScalar(cdPlan, r)]>>
    /\ UNCHANGED <<cdPlan, cdTz, cdWindows>>
    /\ UNCHANGED <<cacheVars, execVars, keyVars, guardVars, resolveVars, statVars, geoVars, eeVars>>

NextChange ==
    \/ ChangeBegin
    \/ \E ok \in BOOLEAN : ChangeMap(ok)
    \/ \E r \in ChangeAnswers : ChangeReduce(r)

\* C18: a change-detection executor splits its range at the elapsed-time
\* midpoint, before = [start, mid) and after = [mid, end), adjacent,
\* disjoint and covering the range, and returns the reduction of after
\* minus before.
C18_MidpointSplit ==
    /\ Len(cdWindows) = 1 =>
          LET w == cdWindows[1]
              r == cdPlan.timeRange
          IN /\ w.before = [from |-> HalfDays(r.start), to |-> MidInstant(r)]
             /\ w.after = [from |-> MidInstant(r), to |-> HalfDays(r.end)]
    /\ (Len(cdScalar) = 1 /\ cdScalar[1].answer.tag = "num") =>
          cdScalar[1].value \in {Num(cdScalar[1].answer.v), Num(cdScalar[1].answer.v * 100)}

\* C28: for every plan whose range has start before end, a one-day range
\* and a range inside one calendar year included, both sub-windows of a
\* change executor are non-empty and well formed: each starts strictly
\* before it ends.
C28_SubWindowsWellFormed ==
    ( /\ Len(cdWindows) = 1
      /\ DayNumber(cdPlan.timeRange.start) < DayNumber(cdPlan.timeRange.end) )
    => /\ cdWindows[1].before.from < cdWindows[1].before.to
       /\ cdWindows[1].after.from < cdWindows[1].after.to

(***************************************************************************)
(* The statistics block of the run route (route.ts 623-675).  Values are   *)
(* integers; a quotient is kept as numerator and denominator and compared  *)
(* and rounded exactly, with the IEEE results of a division by zero.       *)
(***************************************************************************)
MaxSeriesLen == 2

StatValues == {-10, 0, 3, 94, 95, 100, 105, 106}

Abs(x) == IF x < 0 THEN -x ELSE x

\* (change / firstValue) * 100
PercentChange(values) ==
    [num |-> (values[Len(values)] - values[1]) * 100, den |-> values[1]]

PercentKind(p) ==
    IF p.den # 0 THEN "finite"
    ELSE IF p.num > 0 THEN "Infinity"
    ELSE IF p.num < 0 THEN "-Infinity"
    ELSE "NaN"

\* p > k and p < k, false for NaN
Greater(p, k) ==
    CASE PercentKind(p) = "finite" ->
            IF p.den > 0 THEN p.num > k * p.den ELSE p.num < k * p.den
      [] PercentKind(p) = "Infinity" -> TRUE
      [] OTHER -> FALSE

Less(p, k) ==
    CASE PercentKind(p) = "finite" ->
            IF p.den > 0 THEN p.num < k * p.den ELSE p.num > k * p.den
      [] PercentKind(p) = "-Infinity" -> TRUE
      [] OTHER -> FALSE

\* |p| in tenths, rounded to the nearest
Tenths(p) == (2 * 10 * Abs(p.num) + Abs(p.den)) \div (2 * Abs(p.den))

\* percentChange.toFixed(1), as the pieces of the string
toFixed1(p) ==
    IF PercentKind(p) # "finite" THEN <<PercentKind(p)>>
    ELSE (IF Less(p, 0) THEN <<"-">> ELSE <<>>)
            \o NatString(Tenths(p) \div 10) \o <<".", Digits[(Tenths(p) % 10) + 1]>>

TrendOf(p) ==
    IF Greater(p, 5) THEN "increasing"
    ELSE IF Less(p, -5) THEN "decreasing"
    ELSE "stable"

\* the template string of stats.trend
TrendLabel(p) ==
    <<TrendOf(p), " (", IF Greater(p, 0) THEN "+" ELSE "">> \o toFixed1(p) \o <<"%)">>

RECURSIVE SumOf(_)
SumOf(values) == IF values = <<>> THEN 0 ELSE Head(values) + SumOf(Tail(values))

MinOf(values) == CHOOSE v \in ElementsOf(values) : \A u \in ElementsOf(values) : v <= u

MaxOf(values) == CHOOSE v \in ElementsOf(values) : \A u \in ElementsOf(values) : v >= u

\* values.indexOf(v), from 1
IndexOf(values, v) == CHOOSE i \in 1..Len(values) : values[i] = v /\ \A j \in 1..(i - 1) : values[j] # v

\* the stats object; stdDev, a square root, is left out: nothing reads it
StatsOf(values) ==
    IF Len(values) > 0
    THEN [mean |-> [num |-> SumOf(values), den |-> Len(values)],
          min |-> MinOf(values), max |-> MaxOf(values),
          minDate |-> IndexOf(values, MinOf(values)),
          maxDate |-> IndexOf(values, MaxOf(values)),
          percentChange |-> PercentChange(values),
          trend |-> TrendLabel(PercentChange(values))]
    ELSE [mean |-> [num |-> 0, den |-> 0], min |-> 0, max |-> 0, minDate |-> 0, maxDate |-> 0,
          percentChange |-> [num |-> 0, den |-> 0], trend |-> <<>>]

RECURSIVE SeqsUpTo(_, _)
SeqsUpTo(S, n) ==
    IF n = 0 THEN {<<>>}
    ELSE SeqsUpTo(S, n - 1) \cup { Append(s, v) : s \in {t \in SeqsUpTo(S, n - 1) : Len(t) = n - 1}, v \in S }

\* the attribution property of what each executor returns; the NDVI
\* executor returns timeSeries and mapTileUrl (or mapTileUrl and
\* changePercent) and no attribution
ExecutorAttribution(executor) ==
    CASE executor = "executeNDVIWorkflow" -> <<>>
      [] executor = "executeTemperatureWorkflow" ->
            <<[dataset |-> "ERA5 Daily Aggregates",
               source |-> "ECMWF / Copernicus Climate Change Service"]>>
      [] executor = "executePrecipitationWorkflow" ->
            <<[dataset |-> "CHIRPS Daily", source |-> "Climate Hazards Group, UC Santa Barbara"]>>
      [] executor = "executeWaterWorkflow" ->
            <<[dataset |-> "JRC Global Surface Water",
               source |-> "European Commission Joint Research Centre"]>>
      [] executor = "executeAirQualityWorkflow" ->
            <<[dataset |-> "Sentinel-5P TROPOMI",
               source |-> "European Space Agency (ESA) / Copernicus"]>>

\* the executor the run route calls: executeNDVIWorkflow, whatever the plan
RouteExecutor(plan) == "executeNDVIWorkflow"

\* the list WORKFLOW_REFACTOR.md describes: the workflow's entries, each
\* with the plan's date range
AttributionsFromWorkflow(plan, attribution) ==
    [i \in 1..Len(attribution) |->
        [dataset |-> attribution[i].dataset, source |-> attribution[i].source,
         dateRange |-> plan.timeRange]]

\* result.attributions as the route writes it
RouteAttributions(plan, attribution) ==
    <<[dataset |-> "Sentinel-2", source |-> "European Space Agency (ESA) / Copernicus",
       dateRange |-> plan.timeRange]>>

StatPlans ==
    { [dataProduct |-> p, timeRange |-> [start |-> Date(2024, 1, 1), end |-> Date(2024, 6, 30)]] :
        p \in {"vegetation", "temperature"} }

StatInit ==
    /\ stSeries \in SeqsUpTo(StatValues, MaxSeriesLen)
    /\ stStats = <<>>
    /\ stPlan \in StatPlans
    /\ stWorkflow = ExecutorAttribution(RouteExecutor(stPlan))
    /\ stResult = <<>>

\* from the workflow's result to the response: statistics, then the result
ComputeStats ==
    /\ stStats = <<>>
    /\ stStats' = <<StatsOf(stSeries)>>
    /\ stResult' = RouteAttributions(stPlan, stWorkflow)
    /\ UNCHANGED <<stSeries, stPlan, stWorkflow>>
    /\ UNCHANGED <<cacheVars, execVars, keyVars, guardVars, resolveVars, changeVars, geoVars, eeVars>>

NextStat == ComputeStats

\* C19: the trend is "increasing" iff the percent change from the first
\* to the last value is above 5, "decreasing" iff it is below -5, "stable"
\* otherwise (5 and -5 included), and the label carries that percentage
\* with its sign and one decimal.
C19_TrendLabel ==
    (Len(stStats) = 1 /\ Len(stSeries) > 0) =>
        LET p == stStats[1].percentChange
            l == stStats[1].trend
            n == Len(l)
        IN /\ p = [num |-> (stSeries[Len(stSeries)] - stSeries[1]) * 100, den |-> stSeries[1]]
           /\ l[1] = "increasing" <=> Greater(p, 5)
           /\ l[1] = "decreasing" <=> Less(p, -5)
           /\ l[1] \in {"increasing", "decreasing", "stable"}
           /\ l[2] = " ("
           /\ l[n] = "%)"
           /\ Greater(p, 0) => l[3] = "+"
           /\ Less(p, 0) => l[4] = "-"
           /\ l[n - 2] = "."
           /\ l[n - 1] \in ElementsOf(Digits)

\* C29: for every series, one whose first value is negative included, the
\* trend label agrees with the direction of the series: "increasing" only
\* if the last value is above the first, "decreasing" only if it is below.
C29_TrendAgreesWithDirection ==
    (Len(stStats) = 1 /\ Len(stSeries) > 0) =>
        LET first == stSeries[1]
            last == stSeries[Len(stSeries)]
        IN /\ stStats[1].trend[1] = "increasing" => last > first
           /\ stStats[1].trend[1] = "decreasing" => last < first

(***************************************************************************)
(* geocodeLocation (src/unnamed/part_000 338-463).  Names are sequences of *)
(* characters, coordinates are in tenths of a degree.                      *)
(***************************************************************************)
MaxGeoCalls == 2

Tokyo == <<"T", "o", "k", "y", "o">>

Paris == <<"P", "a", "r", "i", "s">>

Atlantis == <<"A", "t", "l", "a", "n", "t", "i", "s">>

\* a property every JavaScript object inherits from Object.prototype
constructor == <<"c", "o", "n", "s", "t", "r", "u", "c", "t", "o", "r">>

Box(w, s, e, n) == [kind |-> "bbox", box |-> <<w, s, e, n>>]

\* the value of a property the table does not have itself
InheritedFunction == [kind |-> "function", box |-> <<>>]

NoValue == [kind |-> "undefined", box |-> <<>>]

\* the entries of FALLBACK_LOCATIONS the model uses
FallbackNames == {Tokyo, Paris}

\* a faulty variant (told apart by C20): no static table behind the lookup
NoFallback(name) == NoValue

\* FALLBACK_LOCATIONS[name], a property lookup on an object literal
FALLBACK_LOCATIONS(name) ==
    CASE name = Tokyo -> Box(1395, 355, 1399, 358)
      [] name = Paris -> Box(22, 488, 25, 490)
      [] name = constructor -> InheritedFunction
      [] OTHER -> NoValue

IsWhiteSpace(c) == c \in {" ", "\t", "\n"}

RECURSIVE TrimStart(_)
TrimStart(s) == IF s # <<>> /\ IsWhiteSpace(Head(s)) THEN TrimStart(Tail(s)) ELSE s

RECURSIVE TrimEnd(_)
TrimEnd(s) ==
    IF s # <<>> /\ IsWhiteSpace(s[Len(s)]) THEN TrimEnd(SubSeq(s, 1, Len(s) - 1)) ELSE s

\* locationName.trim()
Trim(s) == TrimEnd(TrimStart(s))

GeoNames == {Tokyo, <<" ">> \o Tokyo \o <<" ">>, Paris, Atlantis, constructor}

\* what the request to Nominatim can come back with; boundingbox is
\* [minlat, maxlat, minlon, maxlon]
NominatimAnswers ==
    { [tag |-> "network error", boundingbox |-> <<>>],
      [tag |-> "not ok", boundingbox |-> <<>>],
      [tag |-> "no results", boundingbox |-> <<>>],
      [tag |-> "result", boundingbox |-> <<355, 359, 1394, 1399>>] }

Truthy(v) == v.kind # "undefined"

\* geocodingCache.get(key)
GeoCacheGet(m, key) ==
    IF \E i \in 1..Len(m) : m[i].key = key
    THEN m[CHOOSE i \in 1..Len(m) : m[i].key = key].value
    ELSE NoValue

\* geocodingCache.set(key, value)
GeoCacheSet(m, key, value) ==
    IF \E i \in 1..Len(m) : m[i].key = key
    THEN [i \in 1..Len(m) |-> IF m[i].key = key THEN [key |-> key, value |-> value] ELSE m[i]]
    ELSE Append(m, [key |-> key, value |-> value])

GeoReturned(v) == [threw |-> FALSE, value |-> v, message |-> <<>>]

\* the Error of the last throw
UnableToFind(normalizedName) ==
    [threw |-> TRUE, value |-> NoValue,
     message |-> <<"Unable to find location \"">> \o normalizedName
                 \o <<"\". Please try a different location or provide coordinates as [west, south, east, north].">>]

GeoInit ==
    /\ geocodingCache = <<>>
    /\ geoName = <<>>
    /\ geoAnswer = <<>>
    /\ geoResult = <<>>
    /\ geoPc = "idle"
    /\ geoCalls = 0

\* geocodeLocation(locationName) up to the fetch
GeoCall(locationName) ==
    /\ geoPc \in {"idle", "done"}
    /\ geoCalls < MaxGeoCalls
    /\ geoCalls' = geoCalls + 1
    /\ geoName' = locationName
    /\ geoAnswer' = <<>>
    /\ LET cached == GeoCacheGet(geocodingCache, Trim(locationName))
       IN IF Truthy(cached)
          THEN geoPc' = "done" /\ geoResult' = <<GeoReturned(cached)>>
          ELSE geoPc' = "fetch" /\ geoResult' = <<>>
    /\ UNCHANGED geocodingCache
    /\ UNCHANGED <<cacheVars, execVars, keyVars, guardVars, resolveVars, changeVars, statVars, eeVars>>

\* the fetch comes back, and the rest of the function
GeoFetched(a) ==
    /\ geoPc = "fetch"
    /\ geoAnswer' = <<a>>
    /\ geoPc' = "done"
    /\ LET normalizedName == Trim(geoName)
           bbox == Box(a.boundingbox[3], a.boundingbox[1], a.boundingbox[4], a.boundingbox[2])
           fallback == FALLBACK_LOCATIONS(normalizedName)
       IN IF a.tag = "result"
          THEN /\ geocodingCache' = GeoCacheSet(geocodingCache, normalizedName, bbox)
               /\ geoResult' = <<GeoReturned(bbox)>>
          ELSE IF Truthy(fallback)
          THEN /\ geocodingCache' = GeoCacheSet(geocodingCache, normalizedName, fallback)
               /\ geoResult' = <<GeoReturned(fallback)>>
          ELSE /\ geoResult' = <<UnableToFind(normalizedName)>>
               /\ UNCHANGED geocodingCache
    /\ UNCHANGED <<geoName, geoCalls>>
    /\ UNCHANGED <<cacheVars, execVars, keyVars, guardVars, resolveVars, changeVars, statVars, eeVars>>

NextGeo ==
    \/ \E n \in GeoNames : GeoCall(n)
    \/ \E a \in NominatimAnswers : GeoFetched(a)

\* the lookup of the call that has just finished failed
LookupFailed == geoPc = "done" /\ Len(geoAnswer) = 1 /\ geoAnswer[1].tag # "result"

\* name occurs in the message
Mentions(message, name) ==
    \E i \in 1..Len(message) :
        i + Len(name) - 1 <= Len(message) /\ SubSeq(message, i, i + Len(name) - 1) = name

FailedLookupStep == geoPc = "fetch" /\ geoPc' = "done" /\ geoAnswer'[1].tag # "result"

\* a step of GeoCall for a name the memo holds
MemoHitStep ==
    /\ geoPc \in {"idle", "done"}
    /\ geoCalls' = geoCalls + 1
    /\ Truthy(GeoCacheGet(geocodingCache, Trim(geoName')))

\* C21: a resolve makes at most one geocoding call; a name the geocoder
\* has answered for is resolved from the memo, to the same box and with no
\* remote call; the memo holds geocoder answers only, so a failed lookup
\* leaves it as it was.
C21_MemoHoldsGeocoderAnswersOnly ==
    [][ /\ FailedLookupStep => geocodingCache' = geocodingCache
        /\ MemoHitStep =>
              /\ geoPc' = "done"
              /\ geoResult' = <<GeoReturned(GeoCacheGet(geocodingCache, Trim(geoName')))>>
              /\ geocodingCache' = geocodingCache
        /\ geoPc = "fetch" => geoPc' = "done" ]_vars

Executors ==
    {"executeNDVIWorkflow", "executeTemperatureWorkflow", "executePrecipitationWorkflow",
     "executeWaterWorkflow", "executeAirQualityWorkflow"}

\* C22: the result the run route returns and caches carries a non-empty
\* attribution list that is exactly the list of the executed workflow, each
\* entry with the plan's date range; every executor returns a non-empty
\* list and the route puts in no fixed attribution of its own.
C22_AttributionFromWorkflow ==
    Len(stStats) = 1 =>
        /\ stResult # <<>>
        /\ stResult = AttributionsFromWorkflow(stPlan, stWorkflow)
        /\ \A e \in Executors : ExecutorAttribution(e) # <<>>

\* C23: the guardrail allow-lists match the schema: a plan the schema
\* accepts, within the time and area limits, passes the analysis-type and
\* dataset checks and is not rejected by validateAnalysisPlan.
C23_AllowListsMatchSchema ==
    ( /\ gResult.called
      /\ SchemaValid(gPlan)
      /\ gPlan = SchemaParse(gPlan)
      /\ validateTimeRange(gPlan, gToday).valid
      /\ validateLocation(gPlan).valid )
    => /\ validateAnalysisType(gPlan).valid
       /\ ElementsOf(gPlan.datasetIds) \subseteq ElementsOf(ALLOWED_DATASETS)
       /\ ~gResult.thrown
       /\ gResult.valid

\* C24: executeAirQualityChange divides the reduced delta by the field it
\* was read from: changePercent is 100 for every reduced delta that is not
\* zero.
C24_AirQualityChangeIs100 ==
    ( /\ cdPc = "returned"
      /\ cdPlan.dataProduct = "air_quality"
      /\ cdScalar[1].answer.tag = "num"
      /\ cdScalar[1].answer.v # 0 )
    => cdScalar[1].value = Num(100)

\* C24 witness: a delta of -3 and one of 2 would both be returned as 100
C24_Witness ==
    /\ cdPc = "returned"
    /\ cdPlan.dataProduct = "air_quality"
    /\ cdScalar[1].answer = Num(-3)
    /\ cdScalar[1].value = Num(100)
    /\ ChangeScalar(cdPlan, Num(2)) = Num(100)

(***************************************************************************)
(* Keys of plans that differ in the fields generateCacheKey does not read: *)
(* dataProduct and parameters.                                             *)
(***************************************************************************)
SharePlans ==
    { [analysisType |-> a, dataProduct |-> p, datasetIds |-> <<S2_SR>>,
       timeRange |-> [start |-> KeyDates[1], end |-> KeyDates[2]],
       location |-> [kind |-> "bbox", name |-> <<>>, bbox |-> <<1, 2, 3, 4>>],
       parameters |-> [band |-> b]] :
        a \in KeyAnalysisTypes, p \in {"vegetation", "temperature"},
        b \in {"mean_2m_air_temperature", "maximum_2m_air_temperature"} }

ShareInit ==
    /\ keyPlanA \in SharePlans
    /\ keyPlanB \in SharePlans
    /\ keyA = <<>>
    /\ keyB = <<>>

\* C25: a cache entry is shared only by plans with the same dataProduct
\* and the same parameters: two plans that get the same key agree on both.
C25_SameKeySameProductAndParameters ==
    (keyA # <<>> /\ keyA = keyB) =>
        /\ keyPlanA.dataProduct = keyPlanB.dataProduct
        /\ keyPlanA.parameters = keyPlanB.parameters

(***************************************************************************)
(* initializeEarthEngine (src/unnamed/part_003 107-169) and the await of   *)
(* the run route (route.ts 549-561).  A promise is a record in eePromises; *)
(* a request is one call of the function together with the caller's await. *)
(***************************************************************************)
MaxInitCalls == 4

Pending(step) == [state |-> "pending", at |-> step, reason |-> ""]

Resolved == [state |-> "resolved", at |-> "", reason |-> ""]

Rejected(reason) == [state |-> "rejected", at |-> "", reason |-> reason]

\* the executor of new Promise runs at once, up to the first remote call
NewInitializationPromise ==
    IF ~eeCredentials THEN Rejected("GEE credentials not configured")
    ELSE Pending("authenticateViaPrivateKey")

\* if (initializationPromise)
ExistingPromise(p) == p # 0

EarthEngineInit ==
    /\ isInitialized = FALSE
    /\ initializationPromise = 0
    /\ eePromises = <<>>
    /\ eeCredentials \in BOOLEAN
    /\ eeRequests = <<>>

\* one call of initializeEarthEngine, up to its return
InitializeEarthEngine ==
    /\ Len(eeRequests) < MaxInitCalls
    /\ IF ExistingPromise(initializationPromise)
       THEN /\ eeRequests' = Append(eeRequests,
                                [promise |-> initializationPromise, got |-> "waiting"])
            /\ UNCHANGED <<initializationPromise, eePromises>>
       ELSE IF isInitialized
       THEN \* Promise.resolve(): a promise of its own, already resolved
            /\ eePromises' = Append(eePromises, Resolved)
            /\ eeRequests' = Append(eeRequests,
                                [promise |-> Len(eePromises) + 1, got |-> "waiting"])
            /\ UNCHANGED initializationPromise
       ELSE /\ eePromises' = Append(eePromises, NewInitializationPromise)
            /\ initializationPromise' = Len(eePromises) + 1
            /\ eeRequests' = Append(eeRequests,
                                [promise |-> Len(eePromises) + 1, got |-> "waiting"])
    /\ UNCHANGED <<isInitialized, eeCredentials>>
    /\ UNCHANGED <<cacheVars, execVars, keyVars, guardVars, resolveVars, changeVars, statVars, geoVars>>

\* ee.data.authenticateViaPrivateKey calls its success or its error callback
AuthenticateAnswer(ok) ==
    \E p \in 1..Len(eePromises) :
        /\ eePromises[p] = Pending("authenticateViaPrivateKey")
        /\ eePromises' = [eePromises EXCEPT ![p] =
                             IF ok THEN Pending("initialize")
                             ELSE Rejected("authentication failed")]
        /\ UNCHANGED <<isInitialized, initializationPromise, eeCredentials, eeRequests>>
        /\ UNCHANGED <<cacheVars, execVars, keyVars, guardVars, resolveVars, changeVars, statVars, geoVars>>

\* ee.initialize calls its success or its error callback
InitializeAnswer(ok) ==
    \E p \in 1..Len(eePromises) :
        /\ eePromises[p] = Pending("initialize")
        /\ IF ok
           THEN isInitialized' = TRUE /\ eePromises' = [eePromises EXCEPT ![p] = Resolved]
           ELSE /\ eePromises' = [eePromises EXCEPT ![p] = Rejected("initialize failed")]
                /\ UNCHANGED isInitialized
        /\ UNCHANGED <<initializationPromise, eeCredentials, eeRequests>>
        /\ UNCHANGED <<cacheVars, execVars, keyVars, guardVars, resolveVars, changeVars, statVars, geoVars>>

\* the await of the run route gets the settled promise's outcome: the route
\* goes on, or answers 500 with the rejection's message
RouteAwait(i) ==
    /\ eeRequests[i].got = "waiting"
    /\ eePromises[eeRequests[i].promise].state # "pending"
    /\ eeRequests' = [eeRequests EXCEPT ![i].got =
                         IF eePromises[eeRequests[i].promise].state = "resolved"
                         THEN "initialized"
                         ELSE eePromises[eeRequests[i].promise].reason]
    /\ UNCHANGED <<isInitialized, initializationPromise, eePromises, eeCredentials>>
    /\ UNCHANGED <<cacheVars, execVars, keyVars, guardVars, resolveVars, changeVars, statVars, geoVars>>

NextEarthEngine ==
    \/ InitializeEarthEngine
    \/ \E ok \in BOOLEAN : AuthenticateAnswer(ok)
    \/ \E ok \in BOOLEAN : InitializeAnswer(ok)
    \/ \E i \in 1..Len(eeRequests) : RouteAwait(i)

\* C30: a call of initializeEarthEngine made after an initialization
\* attempt has failed (missing credentials, authentication error,
\* initialize error) starts a fresh attempt: it creates a new promise and
\* returns that one, not the rejected one.
C30_FreshAttemptAfterFailure ==
    [][ ( /\ Len(eeRequests') = Len(eeRequests) + 1
          /\ initializationPromise # 0
          /\ eePromises[initializationPromise].state = "rejected" )
        => /\ Len(eePromises') = Len(eePromises) + 1
           /\ eeRequests'[Len(eeRequests')].promise = Len(eePromises') ]_vars

InitCache == CacheInit /\ ExecOff /\ KeyOff /\ GuardOff /\ ResolveOff /\ ChangeOff /\ StatOff /\ GeoOff /\ EarthEngineOff

InitExec == CacheOff /\ ExecInit /\ KeyOff /\ GuardOff /\ ResolveOff /\ ChangeOff /\ StatOff /\ GeoOff /\ EarthEngineOff

SpecExec == InitExec /\ [][NextExec]_vars

InitKey == CacheOff /\ ExecOff /\ KeyInit /\ GuardOff /\ ResolveOff /\ ChangeOff /\ StatOff /\ GeoOff /\ EarthEngineOff

SpecKey == InitKey /\ [][NextKey]_vars

InitGuard == CacheOff /\ ExecOff /\ KeyOff /\ GuardInit /\ ResolveOff /\ ChangeOff /\ StatOff /\ GeoOff /\ EarthEngineOff

SpecGuard == InitGuard /\ [][NextGuard]_vars

InitArea == CacheOff /\ ExecOff /\ KeyOff /\ AreaInit /\ ResolveOff /\ ChangeOff /\ StatOff /\ GeoOff /\ EarthEngineOff

SpecArea == InitArea /\ [][NextGuard]_vars

InitResolve == CacheOff /\ ExecOff /\ KeyOff /\ GuardOff /\ ResolveInit /\ ChangeOff /\ StatOff /\ GeoOff /\ EarthEngineOff

SpecResolve == InitResolve /\ [][NextResolve]_vars

InitChange == CacheOff /\ ExecOff /\ KeyOff /\ GuardOff /\ ResolveOff /\ ChangeInit /\ StatOff /\ GeoOff /\ EarthEngineOff

SpecChange == InitChange /\ [][NextChange]_vars

InitStat == CacheOff /\ ExecOff /\ KeyOff /\ GuardOff /\ ResolveOff /\ ChangeOff /\ StatInit /\ GeoOff /\ EarthEngineOff

SpecStat == InitStat /\ [][NextStat]_vars

InitGeo == CacheOff /\ ExecOff /\ KeyOff /\ GuardOff /\ ResolveOff /\ ChangeOff /\ StatOff /\ GeoInit /\ EarthEngineOff

SpecGeo == InitGeo /\ [][NextGeo]_vars

InitShare == CacheOff /\ ExecOff /\ ShareInit /\ GuardOff /\ ResolveOff /\ ChangeOff /\ StatOff /\ GeoOff /\ EarthEngineOff

SpecShare == InitShare /\ [][NextKey]_vars

InitEarthEngine == CacheOff /\ ExecOff /\ KeyOff /\ GuardOff /\ ResolveOff /\ ChangeOff /\ StatOff /\ GeoOff /\ EarthEngineInit

SpecEarthEngine == InitEarthEngine /\ [][NextEarthEngine]_vars

SpecCache == InitCache /\ [][NextCache]_vars

====
